---- MODULE Spec2Model ----
(***************************************************************************)
(* Model of registry-classes-utils:                                        *)
(*   src/src/registry.rs       transacted registry wrapper, registration   *)
(*   src/src/class_factory.rs  class factory, lock counter, dispatch       *)
(*   src/src/com.rs            CoClass constants, GUID formatting          *)
(*                                                                         *)
(* The operating system's configuration store is modelled as two views:    *)
(* `store`, what an observer outside any transaction sees, and `view`,     *)
(* what the handles of the live transaction see.  Every call made through  *)
(* a handle that was opened with the transaction acts on `view`; a         *)
(* successful CommitTransaction copies `view` to `store`.                   *)
(***************************************************************************)
EXTENDS Integers, Sequences, FiniteSets, Bags, TLC

VARIABLES
    store,        \* committed configuration store (outside observer)
    view,         \* the store as seen through the live transaction
    tx,           \* the Transaction object and its system transaction
    keys,         \* bag of live Key objects
    handles,      \* number of open node handles (HKEY)
    last,         \* the last registry call and its result
    failedWrites, \* entries written by a register call that returned Err
    nTx,          \* number of transactions created so far
    sysCommits,   \* CommitTransaction invocations on the current transaction
    okCommits,    \* commit() calls of the current transaction that returned Ok
    rollbacks,    \* RollbackTransaction invocations on the current transaction
    edits,        \* Key operations issued so far (bounded by MaxEdits)
    regCalls,     \* register/unregister calls issued so far (bounded)
    LOCK_COUNT,   \* the process-wide AtomicUsize
    slot,         \* content of the caller's output slot (*ppv)
    held,         \* classes whose Class Factory the host holds
    call,         \* the last class-factory call, its result and the slot after it
    nLock,        \* completed lock_server(true) calls
    nUnlock,      \* completed lock_server(false) calls
    ordered,      \* no lock_server(true) was issued after a lock_server(false)
    pending,      \* per thread: the lock_server calls it still has to issue
    guid,         \* the GUID handed to the formatting functions of com.rs
    formatted     \* the last formatting call on `guid` and what it returned

vars == <<store, view, tx, keys, handles, last, failedWrites, nTx, sysCommits,
          okCommits, rollbacks, edits, regCalls, LOCK_COUNT, slot, held, call,
          nLock, nUnlock, ordered, pending, guid, formatted>>

regVars == <<store, view, tx, keys, handles, last, failedWrites, nTx,
             sysCommits, okCommits, rollbacks, edits, regCalls>>

cfVars == <<LOCK_COUNT, slot, held, call, nLock, nUnlock, ordered, pending>>

comVars == <<guid, formatted>>

(***************************************************************************)
(* Bounds                                                                  *)
(***************************************************************************)
MaxTx == 2           \* transactions created in one behaviour
MaxKeys == 2         \* Key objects alive at the same time
MaxRoots == 2        \* successful Key::predefined calls in one behaviour
MaxCommitCalls == 2  \* CommitTransaction invocations per transaction
MaxEdits == 2        \* single Key operations in one behaviour
MaxRegCalls == 2     \* register/unregister calls in one behaviour
MaxCalls == 4        \* lock_server calls in one behaviour
MaxProg == 2         \* lock_server calls issued by one thread
WordBits == 16       \* width kept for usize (64 on the targets)

(***************************************************************************)
(* Names.  Key and value names are the w!() literals and the CoClass       *)
(* constants of the source; value data are sequences of UTF-16 code units. *)
(***************************************************************************)
ClassesName == "Classes"                 \* sub_key handed to Key::predefined
CLSID == "{clsid}"                       \* T::CLSID.to_wide() as a key name
PROG_ID == "Prog.1"                      \* T::PROG_ID
VERSION_INDEPENDENT_PROG_ID == "Prog"    \* T::VERSION_INDEPENDENT_PROG_ID
DefaultValue == "(default)"              \* PCWSTR::null() as a value name

NUL == 0

\* the code units of the strings that the source uses as value data
WideOf(name) ==
    CASE name = PROG_ID -> <<1, 2>>
      [] name = VERSION_INDEPENDENT_PROG_ID -> <<1>>
      [] OTHER -> <<9>>

REG_SZ == "REG_SZ"
REG_EXPAND_SZ == "REG_EXPAND_SZ"
REG_DWORD == "REG_DWORD"
REG_QWORD == "REG_QWORD"
REG_BINARY == "REG_BINARY"

ERROR_SUCCESS == "ERROR_SUCCESS"
ERROR_FILE_NOT_FOUND == "ERROR_FILE_NOT_FOUND"
ERROR_ACCESS_DENIED == "ERROR_ACCESS_DENIED"
ERROR_KEY_DELETED == "ERROR_KEY_DELETED"
ERROR_TRANSACTION_NOT_ACTIVE == "ERROR_TRANSACTION_NOT_ACTIVE"
ERROR_CHILD_MUST_BE_VOLATILE == "ERROR_CHILD_MUST_BE_VOLATILE"
E_ILLEGAL_STATE_CHANGE == "E_ILLEGAL_STATE_CHANGE"

(***************************************************************************)
(* com.rs: the textual form of a GUID.  A GUID is the record of its four   *)
(* fields; characters are their ASCII codes.  data1, a u32, is the pair    *)
(* <<high 16 bits, low 16 bits>>, so that 0xffffffff stays representable.  *)
(***************************************************************************)
\* the GUIDs handed to the formatting functions: every field takes its
\* smallest and its largest value and values with leading zero digits
Guids ==
    [data1 : {<<0, 0>>, <<0, 10>>, <<171, 52719>>, <<4660, 22136>>,
              <<65535, 65535>>},
     data2 : {0, 26, 48879},
     data3 : {5, 65535},
     data4 : {<<0, 0, 0, 0, 0, 0, 0, 0>>,
              <<1, 35, 69, 103, 137, 171, 205, 239>>,
              <<10, 0, 240, 15, 0, 160, 9, 255>>,
              <<255, 255, 255, 255, 255, 255, 255, 255>>}]

\* T::CLSID of the class that is registered
T_CLSID ==
    [data1 |-> <<4660, 22136>>, data2 |-> 26, data3 |-> 65535,
     data4 |-> <<1, 35, 69, 103, 137, 171, 205, 239>>]

\* the character of one hex digit under {:x}: '0'..'9', 'a'..'f'
HexChar(d) == IF d < 10 THEN 48 + d ELSE 87 + d

\* {:x}: the digits of value, most significant first, without padding
RECURSIVE HexDigits(_)
HexDigits(value) ==
    IF value < 16 THEN <<HexChar(value)>>
    ELSE HexDigits(value \div 16) \o <<HexChar(value % 16)>>

\* the digits of the u32 whose halves are w[1] and w[2]
HexDigits32(w) ==
    IF w[1] = 0 THEN HexDigits(w[2])
    ELSE LET low == HexDigits(w[2])
         IN  HexDigits(w[1]) \o [i \in 1..(4 - Len(low)) |-> 48] \o low

\* the zero flag and the width of {:0[width]x}: '0' characters on the left
\* up to at least `width` characters
PadZero(d, width) ==
    IF Len(d) >= width THEN d ELSE [i \in 1..(width - Len(d)) |-> 48] \o d

\* {:x} without the zero flag and the width
LowerHex_unpadded(value, width) == HexDigits(value)

\* {:0[width]x} of a u8 or a u16
LowerHex(value, width) == PadZero(HexDigits(value), width)

\* {:08x} of a u32
LowerHex32(w, width) == PadZero(HexDigits32(w), width)

\* Display for GuidWrapper:
\* "{{{:08x}-{:04x}-{:04x}-{:02x}{:02x}-{:02x}{:02x}{:02x}{:02x}{:02x}{:02x}}}"
GuidWrapper_fmt(g) ==
    <<123>> \o LowerHex32(g.data1, 8)
        \o <<45>> \o LowerHex(g.data2, 4)
        \o <<45>> \o LowerHex(g.data3, 4)
        \o <<45>> \o LowerHex(g.data4[1], 2) \o LowerHex(g.data4[2], 2)
        \o <<45>> \o LowerHex(g.data4[3], 2) \o LowerHex(g.data4[4], 2)
        \o LowerHex(g.data4[5], 2) \o LowerHex(g.data4[6], 2)
        \o LowerHex(g.data4[7], 2) \o LowerHex(g.data4[8], 2)
        \o <<125>>

\* the [u8; 39] and [u16; 39] buffers
AsciiBufferLen == 39

\* write!(cursor, ..) on Cursor::new([0u8; 39]): the bytes are copied to the
\* front of the zeroed array; a text longer than the array makes write! fail
Cursor_write(text) ==
    [err |-> Len(text) > AsciiBufferLen,
     position |-> IF Len(text) > AsciiBufferLen THEN AsciiBufferLen ELSE Len(text),
     inner |-> IF Len(text) > AsciiBufferLen
               THEN SubSeq(text, 1, AsciiBufferLen)
               ELSE text \o [i \in 1..(AsciiBufferLen - Len(text)) |-> NUL]]

\* the end of to_ascii_with_nul: assert!(cursor.position() == 38) and
\* cursor.into_inner(); `panic` tells whether unwrap() on the result of
\* write! or the assertion fails
into_inner(cursor) ==
    [panic |-> cursor.err \/ cursor.position # 38, value |-> cursor.inner]

\* GuidExt::to_ascii_with_nul
to_ascii_with_nul(g) == into_inner(Cursor_write(GuidWrapper_fmt(g)))

\* GuidExt::to_wide: self.to_ascii_with_nul().map(|value| value as u16)
as_u16 == [value \in Seq(0..255) |-> [i \in 1..Len(value) |-> value[i] % 65536]]

to_wide(g) == as_u16[to_ascii_with_nul(g).value]

(***************************************************************************)
(* The configuration store                                                 *)
(***************************************************************************)
EmptyFn == [x \in {} |-> x]

EmptyStore == [keys |-> EmptyFn, vals |-> EmptyFn]

\* a path is the sequence of key names below the predefined root
IsPrefix(p, q) == Len(p) <= Len(q) /\ SubSeq(q, 1, Len(p)) = p

KeyExists(s, p) == p = <<>> \/ p \in DOMAIN s.keys

\* everything an observer can read in a store
Entries(s) ==
    {<<"key", p>> : p \in DOMAIN s.keys}
        \cup {<<"val", e[1], e[2], s.vals[e]>> : e \in DOMAIN s.vals}

(***************************************************************************)
(* Operating-system calls.  `w` is the pair of views [pub, txv]; a call    *)
(* made with the transaction handle, or through a node handle that was     *)
(* opened with it, reads and writes w.txv only.  `deny` is the injected    *)
(* failure of the call (access denied), `active` tells whether the system  *)
(* transaction is still active, `dead` whether the node behind the handle  *)
(* has been deleted.                                                       *)
(***************************************************************************)
HandleError(deny, active, dead) ==
    IF deny THEN ERROR_ACCESS_DENIED
    ELSE IF ~active THEN ERROR_TRANSACTION_NOT_ACTIVE
    ELSE IF dead THEN ERROR_KEY_DELETED
    ELSE ERROR_SUCCESS

\* RegCreateKeyTransactedW(key, sub_key, .., options, .., &result, .., transaction, ..)
RegCreateKeyTransactedW(w, key, dead, sub_key, volatile, active, deny) ==
    LET p == Append(key, sub_key)
        e0 == HandleError(deny, active, dead)
        err == IF e0 # ERROR_SUCCESS THEN e0
               ELSE IF /\ ~KeyExists(w.txv, p)
                       /\ key \in DOMAIN w.txv.keys
                       /\ w.txv.keys[key]
                       /\ ~volatile
                    THEN ERROR_CHILD_MUST_BE_VOLATILE
               ELSE ERROR_SUCCESS
        created == err = ERROR_SUCCESS /\ ~KeyExists(w.txv, p)
    IN  [err |-> err,
         path |-> p,
         w |-> IF created
               THEN [w EXCEPT !.txv.keys = (p :> volatile) @@ w.txv.keys]
               ELSE w]

\* RegOpenKeyTransactedW(key, sub_key, .., &result, transaction, ..)
RegOpenKeyTransactedW(w, key, dead, sub_key, active, deny) ==
    LET p == Append(key, sub_key)
        e0 == HandleError(deny, active, dead)
    IN  [err |-> IF e0 # ERROR_SUCCESS THEN e0
                 ELSE IF ~KeyExists(w.txv, p) THEN ERROR_FILE_NOT_FOUND
                 ELSE ERROR_SUCCESS,
         path |-> p,
         w |-> w]

\* the store without the nodes of `gone` (and their values) and without the
\* values of the nodes of `cleared`
Remove(s, gone, cleared) ==
    [keys |-> [p \in DOMAIN s.keys \ gone |-> s.keys[p]],
     vals |-> [e \in {f \in DOMAIN s.vals : f[1] \notin gone \cup cleared}
                  |-> s.vals[e]]]

\* RegDeleteTreeW(key, subkey): subkey is a relative path, <<>> for NULL.
\* With a subkey the node and its descendants go; with NULL the node stays
\* and loses its subkeys and values.
RegDeleteTreeW(w, key, dead, subkey, active, deny) ==
    LET p == key \o subkey
        e0 == HandleError(deny, active, dead)
        err == IF e0 # ERROR_SUCCESS THEN e0
               ELSE IF ~KeyExists(w.txv, p) THEN ERROR_FILE_NOT_FOUND
               ELSE ERROR_SUCCESS
        gone == {q \in DOMAIN w.txv.keys :
                    IsPrefix(p, q) /\ (subkey # <<>> \/ q # p)}
        cleared == {p}
    IN  [err |-> err,
         path |-> p,
         w |-> IF err = ERROR_SUCCESS
               THEN [w EXCEPT !.txv = Remove(w.txv, gone, cleared)]
               ELSE w]

\* RegSetValueExW(hkey, lpvaluename, 0, dwtype, lpdata, cbdata)
RegSetValueExW(w, key, dead, name, type, data, active, deny) ==
    LET err == HandleError(deny, active, dead)
    IN  [err |-> err,
         path |-> key,
         w |-> IF err = ERROR_SUCCESS
               THEN [w EXCEPT !.txv.vals =
                        (<<key, name>> :> [type |-> type, data |-> data])
                            @@ w.txv.vals]
               ELSE w]

\* RegDeleteValueW(hkey, lpvaluename)
RegDeleteValueW(w, key, dead, name, active, deny) ==
    LET e0 == HandleError(deny, active, dead)
        err == IF e0 # ERROR_SUCCESS THEN e0
               ELSE IF <<key, name>> \notin DOMAIN w.txv.vals
                    THEN ERROR_FILE_NOT_FOUND
               ELSE ERROR_SUCCESS
    IN  [err |-> err,
         path |-> key,
         w |-> IF err = ERROR_SUCCESS
               THEN [w EXCEPT !.txv.vals =
                        [e \in DOMAIN w.txv.vals \ {<<key, name>>}
                            |-> w.txv.vals[e]]]
               ELSE w]

(***************************************************************************)
(* registry.rs, mod transaction: the functions of Key as operators.  `k`   *)
(* is a Key object [path, dead]; `t` the Transaction it borrows.           *)
(***************************************************************************)
TxActive(t) == t.live /\ t.os = "active"

\* reg_create_key_transacted with the key created outside the transaction
reg_create_key_untransacted(w, key, dead, sub_key, options, active, deny) ==
    LET r == RegCreateKeyTransactedW(w, key, dead, sub_key, options, active, deny)
    IN  IF r.err = ERROR_SUCCESS
        THEN [r EXCEPT !.w.pub.keys = (r.path :> options) @@ w.pub.keys]
        ELSE r

reg_create_key_transacted(w, key, dead, sub_key, options, active, deny) ==
    RegCreateKeyTransactedW(w, key, dead, sub_key, options, active, deny)

open_key_transacted(w, key, dead, sub_key, active, deny) ==
    RegOpenKeyTransactedW(w, key, dead, sub_key, active, deny)

\* create_subkey that refuses to open a key that already exists
create_subkey_exclusive(w, t, k, sub_key, deny) ==
    IF KeyExists(w.txv, Append(k.path, sub_key))
    THEN [err |-> ERROR_ACCESS_DENIED, path |-> Append(k.path, sub_key), w |-> w]
    ELSE reg_create_key_transacted(w, k.path, k.dead, sub_key, t.key_options,
                                   TxActive(t), deny)

\* create_subkey that asks for a persistent key whatever the transaction says
create_subkey_nonvolatile(w, t, k, sub_key, deny) ==
    reg_create_key_transacted(w, k.path, k.dead, sub_key, FALSE,
                              TxActive(t), deny)

create_subkey(w, t, k, sub_key, deny) ==
    reg_create_key_transacted(w, k.path, k.dead, sub_key, t.key_options,
                              TxActive(t), deny)

open_subkey(w, t, k, sub_key, deny) ==
    open_key_transacted(w, k.path, k.dead, sub_key, TxActive(t), deny)

\* delete_tree_internal that hands every code of the system call on
delete_tree_internal_strict(w, t, k, subkey, deny) ==
    LET r == RegDeleteTreeW(w, k.path, k.dead, subkey, TxActive(t), deny)
    IN  [err |-> r.err, os |-> r.err, path |-> r.path, w |-> r.w]

\* Ok(()) is ERROR_SUCCESS; `os` keeps the code the system call returned
delete_tree_internal(w, t, k, subkey, deny) ==
    LET r == RegDeleteTreeW(w, k.path, k.dead, subkey, TxActive(t), deny)
    IN  [err |-> IF r.err \in {ERROR_SUCCESS, ERROR_FILE_NOT_FOUND}
                 THEN ERROR_SUCCESS ELSE r.err,
         os |-> r.err, path |-> r.path, w |-> r.w]

delete_subkey(w, t, k, subkey, deny) == delete_tree_internal(w, t, k, subkey, deny)

delete_tree(w, t, k, deny) == delete_tree_internal(w, t, k, <<>>, deny)

\* set_value that passes the number of elements as the number of bytes
set_value_half_length(w, t, k, name, value, value_type, deny) ==
    RegSetValueExW(w, k.path, k.dead, name, value_type,
                   SubSeq(value, 1, Len(value) \div 2), TxActive(t), deny)

\* set_value through a handle that is not bound to the transaction
set_value_untransacted(w, t, k, name, value, value_type, deny) ==
    LET r == RegSetValueExW(w, k.path, k.dead, name, value_type, value,
                            TxActive(t), deny)
    IN  IF r.err = ERROR_SUCCESS
        THEN [r EXCEPT !.w.pub.vals =
                 (<<k.path, name>> :> [type |-> value_type, data |-> value])
                     @@ w.pub.vals]
        ELSE r

set_value(w, t, k, name, value, value_type, deny) ==
    RegSetValueExW(w, k.path, k.dead, name, value_type, value, TxActive(t), deny)

\* delete_value that hands every code of the system call on
delete_value_strict(w, t, k, name, deny) ==
    LET r == RegDeleteValueW(w, k.path, k.dead, name, TxActive(t), deny)
    IN  [err |-> r.err, os |-> r.err, path |-> r.path, w |-> r.w]

delete_value(w, t, k, name, deny) ==
    LET r == RegDeleteValueW(w, k.path, k.dead, name, TxActive(t), deny)
    IN  [err |-> IF r.err \in {ERROR_SUCCESS, ERROR_FILE_NOT_FOUND}
                 THEN ERROR_SUCCESS ELSE r.err,
         os |-> r.err, path |-> r.path, w |-> r.w]

\* a PCWSTR is NullPtr or a buffer of code units; as_wide() is the part of
\* the buffer before the first NUL
\* (a buffer holds at least its NUL, so the empty sequence is the null pointer)
NullPtr == <<>>

RECURSIVE AsWide(_)
AsWide(buf) ==
    IF buf = <<>> \/ Head(buf) = NUL THEN <<>>
    ELSE <<Head(buf)>> \o AsWide(Tail(buf))

\* value.to_le_bytes() of an n-byte integer
RECURSIVE LeBytes(_, _)
LeBytes(value, n) ==
    IF n = 0 THEN <<>> ELSE <<value % 256>> \o LeBytes(value \div 256, n - 1)

set_u32(w, t, k, name, value, deny) ==
    set_value(w, t, k, name, LeBytes(value, 4), REG_DWORD, deny)

set_u64(w, t, k, name, value, deny) ==
    set_value(w, t, k, name, LeBytes(value, 8), REG_QWORD, deny)

set_binary(w, t, k, name, value, deny) ==
    set_value(w, t, k, name, value, REG_BINARY, deny)

\* value.encode_utf16(): one code unit per character of the model's strings
set_str(w, t, k, name, value, deny) ==
    set_value(w, t, k, name, value, REG_SZ, deny)

set_str_expand(w, t, k, name, value, deny) ==
    set_value(w, t, k, name, value, REG_EXPAND_SZ, deny)

set_pcwstr(w, t, k, name, value, deny) ==
    set_value(w, t, k, name,
              IF value = NullPtr THEN <<>> ELSE AsWide(value), REG_SZ, deny)

set_pcwstr_expand(w, t, k, name, value, deny) ==
    set_value(w, t, k, name,
              IF value = NullPtr THEN <<>> ELSE AsWide(value), REG_EXPAND_SZ, deny)

set_guid(w, t, k, name, value, deny) ==
    set_value(w, t, k, name, to_wide(value), REG_SZ, deny)

\* Key::predefined: RegCreateKeyTransactedW is called twice, directly and
\* through reg_create_key_transacted; only the second handle is owned by
\* the Key.  deny = 1 or 2 makes the first or the second call fail.
\* `opened` counts the handles that are open when the function returns.
predefined(w, t, key, sub_key, deny) ==
    LET r1 == RegCreateKeyTransactedW(w, key, FALSE, sub_key, t.key_options,
                                      TxActive(t), deny = 1)
        r2 == reg_create_key_transacted(r1.w, key, FALSE, sub_key,
                                        t.key_options, TxActive(t), deny = 2)
    IN  IF r1.err # ERROR_SUCCESS
        THEN [err |-> r1.err, path |-> r1.path, w |-> r1.w, opened |-> 0]
        ELSE IF r2.err # ERROR_SUCCESS
        THEN [err |-> r2.err, path |-> r2.path, w |-> r2.w, opened |-> 1]
        ELSE [err |-> ERROR_SUCCESS, path |-> r2.path, w |-> r2.w, opened |-> 2]

(***************************************************************************)
(* Transaction                                                             *)
(***************************************************************************)
NoTransaction ==
    [live |-> FALSE, key_options |-> FALSE, committed |-> FALSE, os |-> "none"]

\* Transaction::new(description, volatile), CreateTransaction having succeeded
Transaction_new(volatile) ==
    [live |-> TRUE, key_options |-> volatile, committed |-> FALSE,
     os |-> "active"]

\* CommitTransaction(handle): outcome is what the system decides, "ok",
\* "fail" (the transaction stays active) or "abort" (it is rolled back)
CommitTransaction(os, w, outcome) ==
    IF os # "active"
    THEN [err |-> ERROR_TRANSACTION_NOT_ACTIVE, os |-> os, w |-> w]
    ELSE IF outcome = "ok"
    THEN [err |-> ERROR_SUCCESS, os |-> "committed",
          w |-> [pub |-> w.txv, txv |-> w.txv]]
    ELSE IF outcome = "abort"
    THEN [err |-> ERROR_ACCESS_DENIED, os |-> "aborted",
          w |-> [pub |-> w.pub, txv |-> w.pub]]
    ELSE [err |-> ERROR_ACCESS_DENIED, os |-> os, w |-> w]

\* RollbackTransaction(handle)
RollbackTransaction(os, w) ==
    IF os # "active"
    THEN [err |-> ERROR_TRANSACTION_NOT_ACTIVE, os |-> os, w |-> w]
    ELSE [err |-> ERROR_SUCCESS, os |-> "aborted",
          w |-> [pub |-> w.pub, txv |-> w.pub]]

\* closing the last handle of a transaction that is still active aborts it
CloseTransactionHandle(os, w) ==
    IF os = "active"
    THEN [os |-> "aborted", w |-> [pub |-> w.pub, txv |-> w.pub]]
    ELSE [os |-> os, w |-> [pub |-> w.pub, txv |-> w.pub]]

\* commit without the test of the committed flag
commit_unguarded(t, w, outcome) ==
    LET c == CommitTransaction(t.os, w, outcome)
    IN  IF c.err # ERROR_SUCCESS
        THEN [err |-> c.err, t |-> [t EXCEPT !.os = c.os], w |-> c.w, sys |-> 1]
        ELSE [err |-> ERROR_SUCCESS,
              t |-> [t EXCEPT !.os = c.os, !.committed = TRUE],
              w |-> c.w, sys |-> 1]

\* Transaction::commit; `sys` is the number of CommitTransaction calls made
commit(t, w, outcome) ==
    IF t.committed
    THEN [err |-> E_ILLEGAL_STATE_CHANGE, t |-> t, w |-> w, sys |-> 0]
    ELSE LET c == CommitTransaction(t.os, w, outcome)
         IN  IF c.err # ERROR_SUCCESS
             THEN [err |-> c.err, t |-> [t EXCEPT !.os = c.os], w |-> c.w,
                   sys |-> 1]
             ELSE [err |-> ERROR_SUCCESS,
                   t |-> [t EXCEPT !.os = c.os, !.committed = TRUE],
                   w |-> c.w, sys |-> 1]

\* drop with the test of the committed flag inverted
drop_inverted(t, w) ==
    LET r == IF t.committed
             THEN RollbackTransaction(t.os, w)
             ELSE [err |-> ERROR_SUCCESS, os |-> t.os, w |-> w]
        c == CloseTransactionHandle(r.os, r.w)
    IN  [t |-> [t EXCEPT !.live = FALSE, !.os = c.os], w |-> c.w,
         rollback |-> IF t.committed THEN 1 ELSE 0]

\* Drop for Transaction, followed by the drop of its handle field;
\* `rollback` is the number of RollbackTransaction calls made
drop(t, w) ==
    LET r == IF ~t.committed
             THEN RollbackTransaction(t.os, w)
             ELSE [err |-> ERROR_SUCCESS, os |-> t.os, w |-> w]
        c == CloseTransactionHandle(r.os, r.w)
    IN  [t |-> [t EXCEPT !.live = FALSE, !.os = c.os], w |-> c.w,
         rollback |-> IF ~t.committed THEN 1 ELSE 0]

(***************************************************************************)
(* registry.rs: NullTerminatedSlice, register_com_extension,               *)
(* unregister_com_extension                                                *)
(***************************************************************************)
\* Option<NullTerminatedSlice>: an accepted slice is never empty
None == <<>>

NullTerminatedSlice_new(slice) ==
    IF slice = <<>> \/ slice[Len(slice)] # NUL THEN None ELSE slice

\* a class constant (T::PROG_ID, ...) as a PCWSTR: its characters and a NUL
Pcwstr(name) == WideOf(name) \o <<NUL>>

NewKey(path) == [path |-> path, dead |-> FALSE]

\* the calls of register_com_extension in program order; each fallible call
\* ends in `?`, so the first failing one ends the function
RegisterCalls(classes, module_path, description, apartment_type) ==
    LET clsid == NewKey(Append(classes.path, "CLSID"))
        com_object == NewKey(Append(clsid.path, CLSID))
        prog == NewKey(Append(com_object.path, "ProgId"))
        vprog == NewKey(Append(com_object.path, "VersionIndependentProgId"))
        inproc == NewKey(Append(com_object.path, "InprocServer32"))
        alias == NewKey(Append(classes.path, PROG_ID))
        valias == NewKey(Append(classes.path, VERSION_INDEPENDENT_PROG_ID))
        Create(k, n) ==
            [fn |-> "create_subkey", key |-> k, name |-> n, value |-> <<>>]
        SetP(k, n, v) ==
            [fn |-> "set_pcwstr", key |-> k, name |-> n, value |-> v]
        SetG(k, n, v) ==
            [fn |-> "set_guid", key |-> k, name |-> n, value |-> <<>>]
    IN  << Create(classes, "CLSID"),
           Create(clsid, CLSID),
           SetP(com_object, DefaultValue, description),
           Create(com_object, "ProgId"),
           SetP(prog, DefaultValue, Pcwstr(PROG_ID)),
           Create(com_object, "VersionIndependentProgId"),
           SetP(vprog, DefaultValue, Pcwstr(VERSION_INDEPENDENT_PROG_ID)),
           Create(com_object, "InprocServer32"),
           SetP(inproc, DefaultValue, module_path),
           SetP(inproc, "ThreadingModel", apartment_type),
           Create(classes, PROG_ID),
           Create(alias, "CLSID"),
           SetG(NewKey(Append(alias.path, "CLSID")), DefaultValue, CLSID),
           Create(classes, VERSION_INDEPENDENT_PROG_ID),
           Create(valias, "CLSID"),
           SetG(NewKey(Append(valias.path, "CLSID")), DefaultValue, CLSID) >>

NumRegisterCalls == 16

KeyCall(w, t, c, deny) ==
    CASE c.fn = "create_subkey" -> create_subkey(w, t, c.key, c.name, deny)
      [] c.fn = "set_pcwstr" -> set_pcwstr(w, t, c.key, c.name, c.value, deny)
      [] c.fn = "set_guid" -> set_guid(w, t, c.key, c.name, T_CLSID, deny)
      [] c.fn = "delete_subkey" -> delete_subkey(w, t, c.key, c.name, deny)

\* the entries a successful call wrote
Written(c, r) ==
    CASE c.fn = "create_subkey" -> {<<"key", r.path>>}
      [] c.fn \in {"set_pcwstr", "set_guid"} ->
            {<<"val", c.key.path, c.name, r.w.txv.vals[<<c.key.path, c.name>>]>>}
      [] OTHER -> {}

\* run calls[i..], the failAt-th call being denied by the system
RECURSIVE RunCalls(_, _, _, _, _, _)
RunCalls(w, t, calls, i, failAt, written) ==
    IF i > Len(calls)
    THEN [err |-> ERROR_SUCCESS, w |-> w, at |-> 0, written |-> written]
    ELSE LET r == KeyCall(w, t, calls[i], i = failAt)
         IN  IF r.err # ERROR_SUCCESS
             THEN [err |-> r.err, w |-> r.w, at |-> i, written |-> written]
             ELSE RunCalls(r.w, t, calls, i + 1, failAt,
                           written \cup Written(calls[i], r))

\* register_com_extension that returns the Key it was given
register_com_extension_returns_classes(w, t, classes, module_path, description, apartment_type, failAt) ==
    LET r == RunCalls(w, t,
                      RegisterCalls(classes, module_path, description,
                                    apartment_type),
                      1, failAt, {})
    IN  [err |-> r.err, w |-> r.w, at |-> r.at, written |-> r.written,
         path |-> classes.path]

\* register_com_extension::<T>(classes, module_path, description, apartment_type)
\* Ok(com_object) is err = ERROR_SUCCESS with `path` the node of com_object
register_com_extension(w, t, classes, module_path, description, apartment_type, failAt) ==
    LET r == RunCalls(w, t,
                      RegisterCalls(classes, module_path, description,
                                    apartment_type),
                      1, failAt, {})
    IN  [err |-> r.err, w |-> r.w, at |-> r.at, written |-> r.written,
         path |-> classes.path \o <<"CLSID", CLSID>>]

\* unregister_com_extension without the delete of the second alias node
UnregisterCalls_one_alias(classes) ==
    LET Delete(sub) ==
            [fn |-> "delete_subkey", key |-> classes, name |-> sub,
             value |-> <<>>]
    IN  << Delete(<<"CLSID", CLSID>>),
           Delete(<<PROG_ID>>),
           Delete(<<"CLSID", CLSID>>) >>

\* the three delete_subkey calls of unregister_com_extension; the first
\* subkey is the buffer "CLSID\" followed by the identifier string
UnregisterCalls(classes) ==
    LET Delete(sub) ==
            [fn |-> "delete_subkey", key |-> classes, name |-> sub,
             value |-> <<>>]
    IN  << Delete(<<"CLSID", CLSID>>),
           Delete(<<PROG_ID>>),
           Delete(<<VERSION_INDEPENDENT_PROG_ID>>) >>

NumUnregisterCalls == 3

unregister_com_extension(w, t, classes, failAt) ==
    LET r == RunCalls(w, t, UnregisterCalls(classes), 1, failAt, {})
    IN  [err |-> r.err, w |-> r.w, at |-> r.at]

(***************************************************************************)
(* The caller of registry.rs: one Transaction at a time, the Keys it       *)
(* opens, and the calls it makes on them.                                  *)
(***************************************************************************)
W == [pub |-> store, txv |-> view]

Call(op, key, name, args, os, err) ==
    [op |-> op, key |-> key, name |-> name, args |-> args, os |-> os,
     err |-> err]

\* whether a call left the transaction's view as it found it
Effect(before, after) == IF after = before THEN "unchanged" ELSE "changed"

NumKeys == BagCardinality(keys)

OneKey(path) == SetToBag({NewKey(path)})

CountOf(b, e) == IF e \in DOMAIN b THEN b[e] ELSE 0

\* the handles of nodes that no longer exist in the transaction's view
\* refer to deleted keys from now on
MarkDead(b, s) ==
    LET Img(k) == IF KeyExists(s, k.path) THEN k ELSE [k EXCEPT !.dead = TRUE]
        D == {Img(k) : k \in DOMAIN b}
    IN  [e \in D |->
            IF e.dead /\ ~KeyExists(s, e.path)
            THEN CountOf(b, e) + CountOf(b, [e EXCEPT !.dead = FALSE])
            ELSE b[e]]

\* subkey and value names, and the setter calls, a caller may use
SubkeyNames == {"CLSID", PROG_ID}

ValueNames == {DefaultValue, "ThreadingModel"}

SetCalls ==
    {[fn |-> f[1], name |-> f[2], value |-> f[3]] :
        f \in {<<"set_u32", "ThreadingModel", <<258>> >>,
               <<"set_u64", "ThreadingModel", <<1>> >>,
               <<"set_binary", "ThreadingModel", <<7>> >>,
               <<"set_str", "ThreadingModel", <<7>> >>,
               <<"set_str_expand", "ThreadingModel", <<7>> >>,
               <<"set_pcwstr", DefaultValue, NullPtr>>,
               <<"set_pcwstr", DefaultValue, <<7, 0, 8, 0>> >>,
               <<"set_pcwstr_expand", DefaultValue, <<7, 0>> >>,
               <<"set_guid", DefaultValue, <<>> >>}}

SetCall(w, t, k, c, deny) ==
    CASE c.fn = "set_u32" -> set_u32(w, t, k, c.name, c.value[1], deny)
      [] c.fn = "set_u64" -> set_u64(w, t, k, c.name, c.value[1], deny)
      [] c.fn = "set_binary" -> set_binary(w, t, k, c.name, c.value, deny)
      [] c.fn = "set_str" -> set_str(w, t, k, c.name, c.value, deny)
      [] c.fn = "set_str_expand" -> set_str_expand(w, t, k, c.name, c.value, deny)
      [] c.fn = "set_pcwstr" -> set_pcwstr(w, t, k, c.name, c.value, deny)
      [] c.fn = "set_pcwstr_expand" ->
            set_pcwstr_expand(w, t, k, c.name, c.value, deny)
      [] c.fn = "set_guid" -> set_guid(w, t, k, c.name, T_CLSID, deny)

\* the arguments a caller may hand to register_com_extension
\* (module path slice, description, apartment type): a module path that
\* ends in its only null, and a slice without a null
ModuleArgs ==
    { << <<7, 8, 0>>, <<6, 0>>, <<5, 0>> >>,
      << <<7>>, <<6, 0>>, <<4, 0>> >> }

\* the same, and a module path with a null before its terminator together
\* with a null description
RegisterArgs ==
    ModuleArgs \cup { << <<7, 0, 8, 0>>, NullPtr, <<4, 0>> >> }

TxNew(volatile, ok) ==
    /\ ~tx.live
    /\ nTx < MaxTx
    /\ IF ok
       THEN /\ tx' = Transaction_new(volatile)
            /\ view' = store
            /\ nTx' = nTx + 1
            /\ sysCommits' = 0
            /\ okCommits' = 0
            /\ rollbacks' = 0
            /\ failedWrites' = {}
       ELSE UNCHANGED <<tx, view, nTx, sysCommits, okCommits, rollbacks,
                        failedWrites>>
    /\ last' = Call("new", <<>>, "", volatile, "",
                    IF ok THEN ERROR_SUCCESS ELSE ERROR_ACCESS_DENIED)
    /\ UNCHANGED <<store, keys, handles, edits, regCalls>>
    /\ UNCHANGED cfVars
    /\ UNCHANGED comVars

TxCommit(outcome) ==
    /\ tx.live
    /\ sysCommits < MaxCommitCalls
    /\ LET r == commit(tx, W, outcome)
       IN  /\ tx' = r.t
           /\ store' = r.w.pub
           /\ view' = r.w.txv
           /\ sysCommits' = sysCommits + r.sys
           /\ okCommits' = okCommits + (IF r.err = ERROR_SUCCESS THEN 1 ELSE 0)
           /\ last' = Call("commit", <<>>, "", outcome, r.sys, r.err)
    /\ UNCHANGED <<keys, handles, failedWrites, nTx, rollbacks, edits, regCalls>>
    /\ UNCHANGED cfVars
    /\ UNCHANGED comVars

\* the Transaction goes out of scope; the Keys that borrow it are gone
TxDrop ==
    /\ tx.live
    /\ keys = EmptyBag
    /\ LET r == drop(tx, W)
       IN  /\ tx' = r.t
           /\ store' = r.w.pub
           /\ view' = r.w.txv
           /\ rollbacks' = rollbacks + r.rollback
           /\ last' = Call("drop", <<>>, "", "", r.rollback, ERROR_SUCCESS)
    /\ UNCHANGED <<keys, handles, failedWrites, nTx, sysCommits, okCommits,
                   edits, regCalls>>
    /\ UNCHANGED cfVars
    /\ UNCHANGED comVars

KeyPredefined(deny) ==
    /\ tx.live
    /\ NumKeys < MaxKeys
    /\ handles - NumKeys < MaxRoots
    /\ LET r == predefined(W, tx, <<>>, ClassesName, deny)
       IN  /\ store' = r.w.pub
           /\ view' = r.w.txv
           /\ keys' = IF r.err = ERROR_SUCCESS THEN keys (+) OneKey(r.path)
                      ELSE keys
           /\ handles' = handles + r.opened
           /\ failedWrites' = IF r.opened > 0
                              THEN failedWrites \ {<<"key", r.path>>}
                              ELSE failedWrites
           /\ last' = Call("predefined", <<>>, ClassesName, "", r.err, r.err)
    /\ UNCHANGED <<tx, nTx, sysCommits, okCommits, rollbacks, edits, regCalls>>
    /\ UNCHANGED cfVars
    /\ UNCHANGED comVars

\* the effect every single Key operation has on the caller's state
KeyOp(r, op, k, name, args, written, newKey) ==
    /\ edits < MaxEdits
    /\ edits' = edits + 1
    /\ store' = r.w.pub
    /\ view' = r.w.txv
    /\ keys' = IF newKey /\ r.err = ERROR_SUCCESS
               THEN keys (+) OneKey(r.path)
               ELSE MarkDead(keys, r.w.txv)
    /\ handles' = handles + (IF newKey /\ r.err = ERROR_SUCCESS THEN 1 ELSE 0)
    /\ failedWrites' = failedWrites \ written
    /\ last' = Call(op, k.path, name, args,
                    IF "os" \in DOMAIN r THEN r.os ELSE r.err, r.err)
    /\ UNCHANGED <<tx, nTx, sysCommits, okCommits, rollbacks, regCalls>>
    /\ UNCHANGED cfVars
    /\ UNCHANGED comVars

KeyCreateSubkey(k, sub_key, deny) ==
    /\ k \in DOMAIN keys
    /\ NumKeys < MaxKeys
    /\ LET r == create_subkey(W, tx, k, sub_key, deny)
       IN  KeyOp(r, "create_subkey", k, sub_key, "",
                 IF r.err = ERROR_SUCCESS THEN {<<"key", r.path>>} ELSE {}, TRUE)

KeyOpenSubkey(k, sub_key, deny) ==
    /\ k \in DOMAIN keys
    /\ NumKeys < MaxKeys
    /\ LET r == open_subkey(W, tx, k, sub_key, deny)
       IN  KeyOp(r, "open_subkey", k, sub_key, "", {}, TRUE)

KeyDeleteSubkey(k, subkey, deny) ==
    /\ k \in DOMAIN keys
    /\ LET r == delete_subkey(W, tx, k, <<subkey>>, deny)
       IN  KeyOp(r, "delete_subkey", k, subkey, "", {}, FALSE)

KeyDeleteTree(k, deny) ==
    /\ k \in DOMAIN keys
    /\ LET r == delete_tree(W, tx, k, deny)
       IN  KeyOp(r, "delete_tree", k, "", "", {}, FALSE)

KeySet(k, c, deny) ==
    /\ k \in DOMAIN keys
    /\ LET r == SetCall(W, tx, k, c, deny)
       IN  KeyOp(r, c.fn, k, c.name, c.value,
                 IF r.err = ERROR_SUCCESS
                 THEN {<<"val", k.path, c.name, r.w.txv.vals[<<k.path, c.name>>]>>}
                 ELSE {}, FALSE)

KeyDeleteValue(k, name, deny) ==
    /\ k \in DOMAIN keys
    /\ LET r == delete_value(W, tx, k, name, deny)
       IN  KeyOp(r, "delete_value", k, name, "", {}, FALSE)

\* a Key goes out of scope: Owned<HKEY> closes its handle
KeyRelease(k) ==
    /\ k \in DOMAIN keys
    /\ keys' = keys (-) SetToBag({k})
    /\ handles' = handles - 1
    /\ UNCHANGED <<store, view, tx, last, failedWrites, nTx, sysCommits,
                   okCommits, rollbacks, edits, regCalls>>
    /\ UNCHANGED cfVars
    /\ UNCHANGED comVars

Register(k, slice, description, apartment_type, failAt) ==
    /\ k \in DOMAIN keys
    /\ NumKeys < MaxKeys
    /\ regCalls < MaxRegCalls
    /\ NullTerminatedSlice_new(slice) # None
    /\ LET r == register_com_extension(W, tx, k, NullTerminatedSlice_new(slice),
                                       description, apartment_type, failAt)
       IN  /\ store' = r.w.pub
           /\ view' = r.w.txv
           /\ keys' = IF r.err = ERROR_SUCCESS THEN keys (+) OneKey(r.path)
                      ELSE keys
           /\ handles' = handles + (IF r.err = ERROR_SUCCESS THEN 1 ELSE 0)
           /\ failedWrites' = IF r.err = ERROR_SUCCESS
                              THEN failedWrites \ r.written
                              ELSE failedWrites \cup (r.written \ Entries(store))
           /\ last' = Call("register", k.path, Effect(view, r.w.txv),
                           <<slice, description, apartment_type>>, r.at, r.err)
    /\ regCalls' = regCalls + 1
    /\ UNCHANGED <<tx, nTx, sysCommits, okCommits, rollbacks, edits>>
    /\ UNCHANGED cfVars
    /\ UNCHANGED comVars

Unregister(k, failAt) ==
    /\ k \in DOMAIN keys
    /\ regCalls < MaxRegCalls
    /\ LET r == unregister_com_extension(W, tx, k, failAt)
       IN  /\ store' = r.w.pub
           /\ view' = r.w.txv
           /\ keys' = MarkDead(keys, r.w.txv)
           /\ last' = Call("unregister", k.path, Effect(view, r.w.txv), "",
                           r.at, r.err)
    /\ regCalls' = regCalls + 1
    /\ UNCHANGED <<tx, handles, failedWrites, nTx, sysCommits, okCommits,
                   rollbacks, edits>>
    /\ UNCHANGED cfVars
    /\ UNCHANGED comVars

InitRegistry ==
    /\ store = EmptyStore
    /\ view = EmptyStore
    /\ tx = NoTransaction
    /\ keys = EmptyBag
    /\ handles = 0
    /\ last = Call("init", <<>>, "", "", "", ERROR_SUCCESS)
    /\ failedWrites = {}
    /\ nTx = 0
    /\ sysCommits = 0
    /\ okCommits = 0
    /\ rollbacks = 0
    /\ edits = 0
    /\ regCalls = 0

\* The state in which a caller has created a Transaction, has opened the
\* root Key with Key::predefined, and has called register_com_extension on it
\* once: the registration is complete (failAt = 0, the returned Key is held)
\* or stopped at its failAt-th call.  `edits` and `regCalls` count the calls
\* made from this state on.
InitRegistered(volatile, a, failAt) ==
    LET t == Transaction_new(volatile)
        r0 == predefined([pub |-> EmptyStore, txv |-> EmptyStore], t, <<>>,
                         ClassesName, 0)
        k == NewKey(r0.path)
        r == register_com_extension(r0.w, t, k, NullTerminatedSlice_new(a[1]),
                                    a[2], a[3], failAt)
    IN  /\ r0.err = ERROR_SUCCESS
        /\ NullTerminatedSlice_new(a[1]) # None
        /\ store = r.w.pub
        /\ view = r.w.txv
        /\ tx = t
        /\ keys = IF r.err = ERROR_SUCCESS
                  THEN OneKey(k.path) (+) OneKey(r.path)
                  ELSE OneKey(k.path)
        /\ handles = r0.opened + (IF r.err = ERROR_SUCCESS THEN 1 ELSE 0)
        /\ last = Call("register", k.path, Effect(r0.w.txv, r.w.txv), a, r.at,
                       r.err)
        /\ failedWrites = IF r.err = ERROR_SUCCESS THEN {} ELSE r.written
        /\ nTx = 1
        /\ sysCommits = 0
        /\ okCommits = 0
        /\ rollbacks = 0
        /\ edits = 0
        /\ regCalls = 0

\* the Transaction's own calls and Key::predefined
TxStep ==
    \/ \E volatile \in BOOLEAN, ok \in BOOLEAN : TxNew(volatile, ok)
    \/ \E outcome \in {"ok", "fail", "abort"} : TxCommit(outcome)
    \/ TxDrop
    \/ \E deny \in 0..2 : KeyPredefined(deny)
    \/ \E k \in DOMAIN keys : KeyRelease(k)

\* the single operations of Key
KeyStep ==
    \/ \E k \in DOMAIN keys, n \in SubkeyNames, deny \in BOOLEAN :
            KeyCreateSubkey(k, n, deny)
    \/ \E k \in DOMAIN keys, n \in SubkeyNames, deny \in BOOLEAN :
            KeyOpenSubkey(k, n, deny)
    \/ \E k \in DOMAIN keys, n \in SubkeyNames, deny \in BOOLEAN :
            KeyDeleteSubkey(k, n, deny)
    \/ \E k \in DOMAIN keys, deny \in BOOLEAN : KeyDeleteTree(k, deny)
    \/ \E k \in DOMAIN keys, c \in SetCalls, deny \in BOOLEAN :
            KeySet(k, c, deny)
    \/ \E k \in DOMAIN keys, n \in ValueNames, deny \in BOOLEAN :
            KeyDeleteValue(k, n, deny)

\* the calls of register_com_extension with arguments from `args` and of
\* unregister_com_extension, each of their calls being the one that fails
RegisterStepOf(args) ==
    \/ \E k \in DOMAIN keys, a \in args, failAt \in 0..NumRegisterCalls :
            Register(k, a[1], a[2], a[3], failAt)
    \/ \E k \in DOMAIN keys, failAt \in 0..NumUnregisterCalls :
            Unregister(k, failAt)

RegisterStep == RegisterStepOf(RegisterArgs)

(***************************************************************************)
(* class_factory.rs                                                        *)
(***************************************************************************)
S_OK == "S_OK"
E_POINTER == "E_POINTER"
E_FAIL == "E_FAIL"
E_NOINTERFACE == "E_NOINTERFACE"
CLASS_E_NOAGGREGATION == "CLASS_E_NOAGGREGATION"
CLASS_E_CLASSNOTAVAILABLE == "CLASS_E_CLASSNOTAVAILABLE"

\* pointer arguments: NULL or the address of something
NULL == "NULL"
SLOT == "SLOT"                      \* ppv: the address of the caller's slot

\* the classes = [ ... ] list of dll_get_class_object_impl and an identifier
\* that is not in it
Classes == {"CLSID_A", "CLSID_B"}
ClsidArgs == Classes \cup {"CLSID_X", NULL}

IID_IUnknown == "IID_IUnknown"
IID_IClassFactory == "IID_IClassFactory"
IID_IFoo == "IID_IFoo"
IidArgs == {IID_IUnknown, IID_IClassFactory, IID_IFoo, NULL}

\* what a slot can hold
Null == [kind |-> "null", class |-> ""]
Stale == [kind |-> "stale", class |-> ""]
Factory(c) == [kind |-> "factory", class |-> c]
Instance(c) == [kind |-> "instance", class |-> c]

\* the interfaces an object answers to
Interfaces(obj) ==
    IF obj.kind = "factory" THEN {IID_IUnknown, IID_IClassFactory}
    ELSE {IID_IUnknown, IID_IFoo}

\* obj.as_interface::<IUnknown>().query(iid, ppv): QueryInterface stores the
\* interface pointer, or null when the object does not answer to iid
query(obj, iid, ppv, mem) ==
    IF iid \in Interfaces(obj)
    THEN [hr |-> S_OK, mem |-> obj]
    ELSE [hr |-> E_NOINTERFACE, mem |-> Null]

Usize == 2 ^ WordBits

\* AtomicUsize::fetch_add / fetch_sub wrap around
fetch_add(count, n) == (count + n) % Usize

\* a decrement that is lost
fetch_sub_lost(count, n) == count

fetch_sub(count, n) == (count + Usize - n) % Usize

\* ClassFactory::can_unload_now
can_unload_now(count) == count = 0

\* the constructor closure that dll_get_class_object_impl binds to a class;
\* newOk tells whether $class::new() returns Ok
constructor(class, iid, ppv, mem, newOk) ==
    IF ~newOk
    THEN [hr |-> E_FAIL, mem |-> mem]
    ELSE query(Instance(class), iid, ppv, mem)

\* CreateInstance with the pointer checks ahead of the aggregation check
CreateInstance_pointers_first(class, outer, iid, ppv, mem, newOk) ==
    IF iid = NULL \/ ppv = NULL
    THEN [hr |-> E_POINTER, mem |-> mem, ctor |-> 0]
    ELSE IF outer # NULL
    THEN [hr |-> CLASS_E_NOAGGREGATION, mem |-> mem, ctor |-> 0]
    ELSE LET r == constructor(class, iid, ppv, mem, newOk)
         IN  [hr |-> r.hr, mem |-> r.mem, ctor |-> 1]

\* ClassFactory_Impl::CreateInstance; `ctor` counts the constructor calls
CreateInstance(class, outer, iid, ppv, mem, newOk) ==
    IF outer # NULL
    THEN [hr |-> CLASS_E_NOAGGREGATION, mem |-> mem, ctor |-> 0]
    ELSE IF iid = NULL
    THEN [hr |-> E_POINTER, mem |-> mem, ctor |-> 0]
    ELSE IF ppv = NULL
    THEN [hr |-> E_POINTER, mem |-> mem, ctor |-> 0]
    ELSE LET r == constructor(class, iid, ppv, mem, newOk)
         IN  [hr |-> r.hr, mem |-> r.mem, ctor |-> 1]

\* LockServer whose unlock stores zero instead of decrementing
LockServer_unlock_resets(count, flock) ==
    IF flock THEN fetch_add(count, 1) ELSE 0

\* ClassFactory_Impl::LockServer: the counter after the call
LockServer(count, flock) ==
    IF flock THEN fetch_add(count, 1) ELSE fetch_sub(count, 1)

\* dll_get_class_object_impl whose match has no default arm: an identifier
\* that is not in the table gets the factory of a class of the table
dll_get_class_object_impl_no_default(clsid, iid, ppv, mem) ==
    IF ppv = NULL
    THEN [hr |-> E_POINTER, mem |-> mem, made |-> 0, nullwrite |-> FALSE]
    ELSE IF clsid = NULL \/ iid = NULL
    THEN [hr |-> E_POINTER, mem |-> Null, made |-> 0, nullwrite |-> FALSE]
    ELSE LET c == IF clsid \in Classes THEN clsid
                  ELSE CHOOSE x \in Classes : TRUE
             r == query(Factory(c), iid, ppv, Null)
         IN  [hr |-> r.hr, mem |-> r.mem, made |-> 1, nullwrite |-> FALSE]

\* dll_get_class_object_impl that validates clsid and iid before it clears
\* the slot
dll_get_class_object_impl_validate_first(clsid, iid, ppv, mem) ==
    IF ppv = NULL \/ clsid = NULL \/ iid = NULL
    THEN [hr |-> E_POINTER, mem |-> mem, made |-> 0, nullwrite |-> FALSE]
    ELSE IF clsid \notin Classes
    THEN [hr |-> CLASS_E_CLASSNOTAVAILABLE, mem |-> Null, made |-> 0,
          nullwrite |-> FALSE]
    ELSE LET r == query(Factory(clsid), iid, ppv, Null)
         IN  [hr |-> r.hr, mem |-> r.mem, made |-> 1, nullwrite |-> FALSE]

\* __dll_get_class_object_impl(clsid, iid, ppv); `made` counts the Class
\* Factories constructed, `nullwrite` tells whether ppv.write ran on a null ppv
dll_get_class_object_impl(clsid, iid, ppv, mem) ==
    IF ppv = NULL
    THEN [hr |-> E_POINTER, mem |-> mem, made |-> 0, nullwrite |-> FALSE]
    ELSE IF clsid = NULL
    THEN [hr |-> E_POINTER, mem |-> Null, made |-> 0, nullwrite |-> FALSE]
    ELSE IF iid = NULL
    THEN [hr |-> E_POINTER, mem |-> Null, made |-> 0, nullwrite |-> FALSE]
    ELSE IF clsid \notin Classes
    THEN [hr |-> CLASS_E_CLASSNOTAVAILABLE, mem |-> Null, made |-> 0,
          nullwrite |-> FALSE]
    ELSE LET r == query(Factory(clsid), iid, ppv, Null)
         IN  [hr |-> r.hr, mem |-> r.mem, made |-> 1, nullwrite |-> FALSE]

(***************************************************************************)
(* The host of the class factory                                           *)
(***************************************************************************)
Threads == {1, 2}

FactoryCall(op, class, outer, iid, ppv, before, r) ==
    [op |-> op, class |-> class, outer |-> outer, iid |-> iid, ppv |-> ppv,
     before |-> before, after |-> r.mem, hr |-> r.hr, ctor |-> r.ctor,
     made |-> r.made,
     nullwrite |-> r.nullwrite, ret |-> r.ret, newOk |-> r.newOk]

NoResult ==
    [hr |-> S_OK, mem |-> slot, ctor |-> 0, made |-> 0, nullwrite |-> FALSE,
     ret |-> FALSE, newOk |-> FALSE]

\* the host leaves something in its slot before it hands the slot out
HostScribble ==
    /\ slot # Stale
    /\ slot' = Stale
    /\ UNCHANGED <<LOCK_COUNT, held, call, nLock, nUnlock, ordered, pending>>
    /\ UNCHANGED regVars
    /\ UNCHANGED comVars

GetClassObject(clsid, iid, ppv) ==
    /\ LET r == dll_get_class_object_impl(clsid, iid, ppv, slot)
       IN  /\ slot' = r.mem
           /\ held' = IF r.hr = S_OK THEN held \cup {clsid} ELSE held
           /\ call' = FactoryCall("get_class_object", clsid, NULL, iid, ppv,
                                  slot,
                                  [NoResult EXCEPT !.hr = r.hr, !.mem = r.mem,
                                                   !.made = r.made,
                                                   !.nullwrite = r.nullwrite])
    /\ UNCHANGED <<LOCK_COUNT, nLock, nUnlock, ordered, pending>>
    /\ UNCHANGED regVars
    /\ UNCHANGED comVars

CreateInstanceCall(class, outer, iid, ppv, newOk) ==
    /\ class \in held
    /\ LET r == CreateInstance(class, outer, iid, ppv, slot, newOk)
       IN  /\ slot' = r.mem
           /\ call' = FactoryCall("create_instance", class, outer, iid, ppv,
                                  slot,
                                  [NoResult EXCEPT !.hr = r.hr, !.mem = r.mem,
                                                   !.ctor = r.ctor,
                                                   !.newOk = newOk])
    /\ UNCHANGED <<LOCK_COUNT, held, nLock, nUnlock, ordered, pending>>
    /\ UNCHANGED regVars
    /\ UNCHANGED comVars

\* lock_server always returns Ok(())
LockServerCall(class, flock) ==
    /\ class \in held
    /\ nLock + nUnlock < MaxCalls
    /\ LOCK_COUNT' = LockServer(LOCK_COUNT, flock)
    /\ nLock' = IF flock THEN nLock + 1 ELSE nLock
    /\ nUnlock' = IF flock THEN nUnlock ELSE nUnlock + 1
    /\ ordered' = (ordered /\ (flock => nUnlock = 0))
    /\ call' = FactoryCall("lock_server", class, NULL, NULL, NULL, slot,
                           [NoResult EXCEPT !.ret = flock])
    /\ UNCHANGED <<slot, held, pending>>
    /\ UNCHANGED regVars
    /\ UNCHANGED comVars

CanUnloadNow ==
    /\ call' = FactoryCall("can_unload_now", "", NULL, NULL, NULL, slot,
                           [NoResult EXCEPT !.ret = can_unload_now(LOCK_COUNT)])
    /\ UNCHANGED <<LOCK_COUNT, slot, held, nLock, nUnlock, ordered, pending>>
    /\ UNCHANGED regVars
    /\ UNCHANGED comVars

InitFactory ==
    /\ LOCK_COUNT = 0
    /\ slot = Null
    /\ held = {}
    /\ call = FactoryCall("init", "", NULL, NULL, NULL, Null, NoResult)
    /\ nLock = 0
    /\ nUnlock = 0
    /\ ordered = TRUE
    /\ pending = [t \in Threads |-> <<>>]

\* no formatting call has been made
NotFormatted == [fn |-> "none", panic |-> FALSE, value |-> <<>>]

InitCom ==
    /\ guid = T_CLSID
    /\ formatted = NotFormatted

Init == InitRegistry /\ InitFactory /\ InitCom

InitAfterRegister ==
    /\ \E volatile \in BOOLEAN, a \in RegisterArgs,
          failAt \in 0..NumRegisterCalls :
            InitRegistered(volatile, a, failAt)
    /\ InitFactory
    /\ InitCom

(***************************************************************************)
(* Spec: a caller that edits the store through Keys of its transactions.   *)
(***************************************************************************)
Next ==
    \/ TxStep
    \/ KeyStep

Spec == Init /\ [][Next]_vars

(***************************************************************************)
(* SpecRegister: a caller that registers and unregisters the class of one  *)
(* module in the course of its transactions.                               *)
(***************************************************************************)
NextRegister ==
    \/ TxStep
    \/ RegisterStepOf(ModuleArgs)

SpecRegister == Init /\ [][NextRegister]_vars

(***************************************************************************)
(* SpecCycle: a caller that has registered a class (or has tried to) goes  *)
(* on to unregister it or to register it again in the same Transaction.    *)
(***************************************************************************)
NextCycle ==
    \/ RegisterStep
    \/ \E k \in DOMAIN keys : KeyRelease(k)

SpecCycle == InitAfterRegister /\ [][NextCycle]_vars

(***************************************************************************)
(* SpecDelete: a caller that has registered a class (or has tried to) goes *)
(* on to edit the tree with single Key operations in the same Transaction. *)
(***************************************************************************)
NextDelete ==
    \/ KeyStep
    \/ \E k \in DOMAIN keys : KeyRelease(k)

SpecDelete == InitAfterRegister /\ [][NextDelete]_vars

(***************************************************************************)
(* SpecFactory: the host asks for class objects and creates instances.     *)
(***************************************************************************)
NextFactory ==
    \/ HostScribble
    \/ \E clsid \in ClsidArgs, iid \in IidArgs, ppv \in {NULL, SLOT} :
            GetClassObject(clsid, iid, ppv)
    \/ \E class \in Classes, outer \in {NULL, "outer"}, iid \in IidArgs,
          ppv \in {NULL, SLOT}, newOk \in BOOLEAN :
            CreateInstanceCall(class, outer, iid, ppv, newOk)

SpecFactory == Init /\ [][NextFactory]_vars

(***************************************************************************)
(* SpecLock: the host locks and unlocks the server through the factories   *)
(* it holds, one call after the other, and asks whether it may unload.     *)
(***************************************************************************)
NextLock ==
    \/ \E clsid \in ClsidArgs, iid \in IidArgs, ppv \in {NULL, SLOT} :
            GetClassObject(clsid, iid, ppv)
    \/ \E class \in Classes, flock \in BOOLEAN : LockServerCall(class, flock)
    \/ CanUnloadNow

SpecLock == Init /\ [][NextLock]_vars

(***************************************************************************)
(* SpecThreads: several threads of the host issue their lock_server calls  *)
(* on the factories the host holds; every call is one atomic               *)
(* read-modify-write of LOCK_COUNT.                                        *)
(***************************************************************************)
LockCalls == {[class |-> c, flock |-> b] : c \in Classes, b \in BOOLEAN}

Programs == UNION {[1..n -> LockCalls] : n \in 0..MaxProg}

AllDone == \A t \in Threads : pending[t] = <<>>

ThreadLockServer(t) ==
    /\ pending[t] # <<>>
    /\ LET c == Head(pending[t])
       IN  /\ c.class \in held
           /\ LOCK_COUNT' = LockServer(LOCK_COUNT, c.flock)
           /\ nLock' = IF c.flock THEN nLock + 1 ELSE nLock
           /\ nUnlock' = IF c.flock THEN nUnlock ELSE nUnlock + 1
           /\ ordered' = (ordered /\ (c.flock => nUnlock = 0))
           /\ call' = FactoryCall("lock_server", c.class, NULL, NULL, NULL, slot,
                                  [NoResult EXCEPT !.ret = c.flock])
    /\ pending' = [pending EXCEPT ![t] = Tail(pending[t])]
    /\ UNCHANGED <<slot, held>>
    /\ UNCHANGED regVars
    /\ UNCHANGED comVars

InitThreads ==
    /\ InitRegistry
    /\ LOCK_COUNT = 0
    /\ slot = Null
    /\ held = Classes
    /\ call = FactoryCall("init", "", NULL, NULL, NULL, Null, NoResult)
    /\ nLock = 0
    /\ nUnlock = 0
    /\ ordered = TRUE
    /\ pending \in [Threads -> Programs]
    /\ InitCom

NextThreads ==
    \/ \E t \in Threads : ThreadLockServer(t)
    \/ CanUnloadNow

SpecThreads == InitThreads /\ [][NextThreads]_vars

(***************************************************************************)
(* SpecGuid: the formatting functions of com.rs applied to a GUID.         *)
(***************************************************************************)
ToAsciiWithNul ==
    /\ formatted.fn = "none"
    /\ LET r == to_ascii_with_nul(guid)
       IN  formatted' = [fn |-> "to_ascii_with_nul", panic |-> r.panic,
                         value |-> r.value]
    /\ UNCHANGED <<guid>>
    /\ UNCHANGED regVars
    /\ UNCHANGED cfVars

\* to_wide calls to_ascii_with_nul, whose panic it cannot catch
ToWide ==
    /\ formatted.fn = "none"
    /\ formatted' = [fn |-> "to_wide", panic |-> to_ascii_with_nul(guid).panic,
                     value |-> to_wide(guid)]
    /\ UNCHANGED <<guid>>
    /\ UNCHANGED regVars
    /\ UNCHANGED cfVars

InitGuid ==
    /\ InitRegistry
    /\ InitFactory
    /\ guid \in Guids
    /\ formatted = NotFormatted

NextGuid ==
    \/ ToAsciiWithNul
    \/ ToWide

SpecGuid == InitGuid /\ [][NextGuid]_vars

(***************************************************************************)
(* Properties                                                              *)
(***************************************************************************)
Ok(c) == c.err = ERROR_SUCCESS

\* C1 as stated: whatever the caller does with the transaction afterwards
\* (further Key operations, commit, release), no entry written by a
\* register call that failed is ever observable outside the transaction.
C1_FailedRegisterNeverObservable ==
    failedWrites \cap Entries(store) = {}

\* C1, amended: the entries written by a register call that failed are not
\* observable outside the transaction when the call returns, and do not
\* become observable in any later state unless a commit() of the owning
\* Transaction has succeeded; released without one, they are never persisted.
C1_FailedRegisterObservableOnlyByCommit ==
    okCommits = 0 => failedWrites \cap Entries(store) = {}

\* a register call failed after it had written entries, and the transaction
\* was released without a commit
C1_Witness ==
    /\ failedWrites # {}
    /\ ~tx.live
    /\ okCommits = 0
    /\ rollbacks = 1

\* C2: at most one commit() of a Transaction succeeds; a commit() on a
\* committed Transaction returns E_ILLEGAL_STATE_CHANGE, does not call
\* CommitTransaction and leaves the committed flag as it is.
C2_AtMostOneCommit ==
    /\ [](okCommits <= 1)
    /\ [][(tx.committed /\ \E o \in {"ok", "fail", "abort"} : TxCommit(o))
            => /\ last'.err = E_ILLEGAL_STATE_CHANGE
               /\ sysCommits' = sysCommits
               /\ okCommits' = okCommits
               /\ tx'.committed
               /\ store' = store]_vars

\* a commit() after a successful one was refused
C2_Witness ==
    /\ okCommits = 1
    /\ last.op = "commit"
    /\ last.err = E_ILLEGAL_STATE_CHANGE

\* C3: the committed flag is set exactly when a commit() has succeeded; a
\* released Transaction was rolled back if and only if none did (never
\* called, or every call failed), and nothing is rolled back before release.
C3_RollbackIffNotCommitted ==
    /\ tx.committed = (okCommits > 0)
    /\ tx.live => rollbacks = 0
    /\ (~tx.live /\ nTx > 0) =>
            /\ rollbacks = (IF okCommits = 0 THEN 1 ELSE 0)
            /\ tx.os = (IF okCommits = 0 THEN "aborted" ELSE "committed")
            /\ okCommits = 0 => view = store

\* a Transaction whose only commit() failed has been released, with edits
C3_Witness ==
    /\ ~tx.live
    /\ sysCommits > 0
    /\ okCommits = 0
    /\ rollbacks = 1
    /\ edits > 0

\* what the transaction's view shows right after the last Key operation
C4_Applied ==
    LET p == Append(last.key, last.name)
    IN  /\ (last.op \in {"predefined", "create_subkey", "open_subkey"} /\ Ok(last))
                => p \in DOMAIN view.keys
        /\ (last.op \in {c.fn : c \in SetCalls} /\ Ok(last))
                => <<last.key, last.name>> \in DOMAIN view.vals
        /\ (last.op = "delete_subkey" /\ Ok(last))
                => \A q \in DOMAIN view.keys : ~IsPrefix(p, q)
        /\ (last.op = "delete_tree" /\ Ok(last))
                => /\ \A q \in DOMAIN view.keys :
                        IsPrefix(last.key, q) => q = last.key
                   /\ \A e \in DOMAIN view.vals : e[1] # last.key
        /\ (last.op = "delete_value" /\ Ok(last))
                => <<last.key, last.name>> \notin DOMAIN view.vals

\* C4: every edit made through a Key takes effect in the transaction's view
\* when it is issued (a later edit acts on the result of the earlier ones),
\* and the store an outside observer sees changes only in the step in which
\* a commit() of the transaction succeeds.
C4_EditsTransacted ==
    /\ []C4_Applied
    /\ [][store' # store => okCommits' = okCommits + 1]_vars

\* a node of the committed store was deleted inside a transaction that has
\* not committed: the outside observer still sees it
C4_Witness ==
    /\ tx.live
    /\ okCommits = 0
    /\ last.op = "delete_subkey"
    /\ last.os = ERROR_SUCCESS
    /\ Append(last.key, last.name) \in DOMAIN store.keys
    /\ Append(last.key, last.name) \notin DOMAIN view.keys

\* C5 as stated: a create_instance call that fails with a non-null output
\* slot pointer leaves the slot null.
C5_FailedCreateInstanceLeavesNull ==
    (call.op = "create_instance" /\ call.hr # S_OK /\ call.ppv # NULL)
        => call.after = Null

\* C6: create_instance returns NoAggregation whenever outer is non-null,
\* InvalidPointer when outer is null and iid or ppv is null, without calling
\* the constructor; in every other case it calls the constructor once and
\* returns its result.
C6_CreateInstanceValidation ==
    call.op = "create_instance" =>
        IF call.outer # NULL
        THEN call.hr = CLASS_E_NOAGGREGATION /\ call.ctor = 0
        ELSE IF call.iid = NULL \/ call.ppv = NULL
        THEN call.hr = E_POINTER /\ call.ctor = 0
        ELSE LET r == constructor(call.class, call.iid, call.ppv, call.before,
                                  call.newOk)
             IN  call.ctor = 1 /\ call.hr = r.hr /\ call.after = r.mem

\* create_instance was called with a non-null outer and null pointers
C6_Witness ==
    /\ call.op = "create_instance"
    /\ call.outer # NULL
    /\ call.iid = NULL
    /\ call.ppv = NULL
    /\ call.hr = CLASS_E_NOAGGREGATION

\* C7: for an identifier that is not in the dispatch table, get_class_object
\* with non-null pointers returns ClassNotAvailable, constructs no Class
\* Factory and leaves the output slot null.
C7_UnknownClass ==
    (/\ call.op = "get_class_object"
     /\ call.class \notin Classes
     /\ call.class # NULL
     /\ call.iid # NULL
     /\ call.ppv # NULL)
        => /\ call.hr = CLASS_E_CLASSNOTAVAILABLE
           /\ call.made = 0
           /\ call.after = Null
           /\ call.class \notin held

\* an unknown identifier was asked for with a slot that held something
C7_Witness ==
    /\ call.op = "get_class_object"
    /\ call.class = "CLSID_X"
    /\ call.iid = IID_IClassFactory
    /\ call.ppv = SLOT
    /\ call.before # Null
    /\ call.hr = CLASS_E_CLASSNOTAVAILABLE

\* C8: get_class_object with a null output slot pointer returns
\* InvalidPointer and writes nothing; with a non-null one the slot is null
\* when the call fails with InvalidPointer for a null identifier or a null
\* interface pointer.
C8_ClearBeforeValidate ==
    call.op = "get_class_object" =>
        /\ ~call.nullwrite
        /\ call.ppv = NULL => (call.hr = E_POINTER /\ call.after = call.before)
        /\ (call.ppv # NULL /\ (call.class = NULL \/ call.iid = NULL))
                => (call.hr = E_POINTER /\ call.after = Null)

\* a call with a null identifier found something in the slot and cleared it
C8_Witness ==
    /\ call.op = "get_class_object"
    /\ call.ppv = SLOT
    /\ call.class = NULL
    /\ call.before # Null
    /\ call.after = Null

\* C9: after N lock_server(true) calls followed by M <= N lock_server(false)
\* calls, can_unload_now() is true exactly when M = N; can_unload_now()
\* returns whether the counter is zero, and lock_server returns Ok.
C9_LockCounter ==
    /\ (ordered /\ nUnlock <= nLock) => ((LOCK_COUNT = 0) = (nUnlock = nLock))
    /\ call.op = "can_unload_now" => (call.ret = (LOCK_COUNT = 0))
    /\ call.op = "lock_server" => call.hr = S_OK

\* two locks, then two unlocks, then can_unload_now() returned true
C9_Witness ==
    /\ ordered
    /\ nLock = 2
    /\ nUnlock = 2
    /\ call.op = "can_unload_now"
    /\ call.ret

\* C10: once the lock_server calls of all threads have completed, the
\* counter holds the number of lock_server(true) calls minus the number of
\* lock_server(false) calls, as a machine word (exactly that number when it
\* is not negative), and a can_unload_now() that starts afterwards returns
\* whether the two numbers are equal.
C10_NoLostUpdate ==
    AllDone =>
        /\ LOCK_COUNT = (nLock - nUnlock + Usize) % Usize
        /\ nLock >= nUnlock => LOCK_COUNT = nLock - nUnlock
        /\ call.op = "can_unload_now" => (call.ret = (nLock = nUnlock))

\* both threads have issued two calls each, locks and unlocks, and a
\* can_unload_now() after them saw the counter back at zero
C10_Witness ==
    /\ AllDone
    /\ nLock = 2
    /\ nUnlock = 2
    /\ ~ordered
    /\ call.op = "can_unload_now"
    /\ call.ret

\* the characters of the canonical form: positions are counted from 0
HexCharSet == (48..57) \cup (97..102)

HexValue(c) == IF c <= 57 THEN c - 48 ELSE c - 87

RECURSIVE HexNumber(_)
HexNumber(text) ==
    IF text = <<>> THEN 0
    ELSE 16 * HexNumber(SubSeq(text, 1, Len(text) - 1)) + HexValue(text[Len(text)])

\* the characters at positions from..to (counted from 0) of a buffer
Field(buf, from, to) == SubSeq(buf, from + 1, to + 1)

\* buf holds the canonical form of g followed by a null at index 38
Canonical(buf, g) ==
    /\ Len(buf) = 39
    /\ buf[0 + 1] = 123
    /\ buf[37 + 1] = 125
    /\ \A i \in {9, 14, 19, 24} : buf[i + 1] = 45
    /\ \A i \in (1..36) \ {9, 14, 19, 24} : buf[i + 1] \in HexCharSet
    /\ buf[38 + 1] = 0
    /\ HexNumber(Field(buf, 1, 4)) = g.data1[1]
    /\ HexNumber(Field(buf, 5, 8)) = g.data1[2]
    /\ HexNumber(Field(buf, 10, 13)) = g.data2
    /\ HexNumber(Field(buf, 15, 18)) = g.data3
    /\ HexNumber(Field(buf, 20, 21)) = g.data4[1]
    /\ HexNumber(Field(buf, 22, 23)) = g.data4[2]
    /\ \A j \in 0..5 :
            HexNumber(Field(buf, 25 + 2 * j, 26 + 2 * j)) = g.data4[3 + j]

\* C14: for every GUID, to_ascii_with_nul returns 38 characters of the form
\* {8-4-4-4-12} in lowercase hex digits (braces at positions 0 and 37,
\* hyphens at 9, 14, 19 and 24, every field zero-padded to its width and
\* spelling the field's value) followed by a null at index 38, neither
\* unwrap() nor the length assertion fails, and to_wide returns the same 39
\* code units.
C14_GuidFormat ==
    formatted.fn # "none" =>
        /\ ~formatted.panic
        /\ Canonical(formatted.value, guid)
        /\ formatted.fn = "to_wide" =>
                formatted.value = to_ascii_with_nul(guid).value

\* a GUID whose fields all have leading zero digits was widened
C14_Witness ==
    /\ formatted.fn = "to_wide"
    /\ guid.data1 = <<0, 10>>
    /\ guid.data2 = 0
    /\ guid.data3 = 5
    /\ guid.data4[1] = 10
    /\ Len(formatted.value) = 39

\* C17 as stated: whatever lock_server calls are made, the counter is the
\* number of outstanding locks: it never exceeds the number of
\* lock_server(true) calls made, and can_unload_now() is true while no lock
\* has ever been taken.
C17_CounterNeverUnderflows ==
    /\ LOCK_COUNT <= nLock
    /\ (call.op = "can_unload_now" /\ nLock = 0) => call.ret

\* C18 as stated: the number of open node handles equals the number of live
\* Keys, so no handle is open once every Key has been released.
C18_HandlesOwned ==
    handles = NumKeys

\* C16: the volatility policy of a Transaction is the one it was created
\* with and does not change while the Transaction lives; every key that
\* appears in the store (through Key::predefined or create_subkey, at any
\* depth) is created inside a live Transaction with exactly that policy, and
\* a key that already exists keeps the policy it was created with.  The only
\* other keys that appear are committed keys that a rollback brings back.
C16_VolatilityPolicy ==
    /\ []((last.op = "new" /\ Ok(last)) => tx.key_options = last.args)
    /\ [][/\ (tx.live /\ tx'.live) => tx'.key_options = tx.key_options
          /\ \A p \in DOMAIN view'.keys \ DOMAIN view.keys :
                IF last'.op \in {"predefined", "create_subkey"}
                THEN tx.live /\ view'.keys[p] = tx.key_options
                ELSE p \in DOMAIN store.keys /\ view'.keys[p] = store.keys[p]
          /\ \A p \in DOMAIN view'.keys \cap DOMAIN view.keys :
                view'.keys[p] = view.keys[p]]_vars

\* the second Transaction, a volatile one, has created a volatile key below
\* a persistent key that the first Transaction committed
C16_Witness ==
    /\ nTx = 2
    /\ tx.live
    /\ tx.key_options
    /\ last.op = "create_subkey"
    /\ Ok(last)
    /\ last.key \in DOMAIN view.keys
    /\ ~view.keys[last.key]
    /\ Append(last.key, last.name) \in DOMAIN view.keys
    /\ view.keys[Append(last.key, last.name)]

\* the nodes of the registration tree below the root node `root`: the
\* identifier node and the two alias nodes
TreeRoots(root) ==
    {root \o <<"CLSID", CLSID>>, Append(root, PROG_ID),
     Append(root, VERSION_INDEPENDENT_PROG_ID)}

\* the keys and values of store s below the node `root`
Under(s, root) ==
    {e \in Entries(s) : IsPrefix(root, e[2]) /\ (e[1] = "key" => e[2] # root)}

\* a Key whose node exists, in a Transaction that is active
Usable(k) == TxActive(tx) /\ ~k.dead

\* C11: whatever the store holds (the class registered, partly registered or
\* not registered), an unregister that the system does not fail returns Ok
\* and leaves none of the identifier node and the two alias nodes, nor
\* anything below them; an unregister right after a successful one on the
\* same root returns Ok again and changes nothing.
C11_UnregisterIdempotent ==
    [][\A k \in DOMAIN keys :
          (Usable(k) /\ Unregister(k, 0)) =>
              /\ Ok(last')
              /\ \A n \in TreeRoots(k.path), q \in DOMAIN view'.keys :
                    ~IsPrefix(n, q)
              /\ \A n \in TreeRoots(k.path), e \in DOMAIN view'.vals :
                    ~IsPrefix(n, e[1])
              /\ (last.op = "unregister" /\ Ok(last) /\ last.key = k.path)
                    => (view' = view /\ store' = store)]_vars

\* the class was registered, an unregister removed it (the Key that register
\* returned refers to a deleted node) and a second unregister right after
\* it returned Ok without changing anything
C11_Witness ==
    /\ regCalls = 2
    /\ last.op = "unregister"
    /\ Ok(last)
    /\ last.name = "unchanged"
    /\ last.key = <<ClassesName>>
    /\ \E k \in DOMAIN keys : k.dead /\ k.path = <<ClassesName, "CLSID", CLSID>>

\* C19 as stated: below a root under which nothing existed, a successful
\* register followed by a successful unregister leaves nothing.
C19_UnregisterInvertsRegister ==
    [][\A k \in DOMAIN keys :
          (/\ regCalls = 0
           /\ last.op = "register"
           /\ Ok(last)
           /\ last.key = k.path
           /\ Unregister(k, 0))
              => (Ok(last') /\ Under(view', k.path) = {})]_vars

\* C19, amended: below a root under which nothing existed, a successful
\* register followed by a successful unregister leaves exactly one entry,
\* the `CLSID` container node that register created, without values and
\* without subkeys; the identifier node, everything below it and both alias
\* nodes are gone, and the store outside the transaction is untouched.
C19_UnregisterLeavesContainer ==
    [][\A k \in DOMAIN keys :
          (/\ regCalls = 0
           /\ last.op = "register"
           /\ Ok(last)
           /\ last.key = k.path
           /\ Unregister(k, 0))
              => /\ Ok(last')
                 /\ Under(view', k.path) = {<<"key", Append(k.path, "CLSID")>>}
                 /\ store' = store]_vars

\* the registration made below the empty root has been unregistered: the
\* Key that register returned refers to a deleted node
C19_Witness ==
    /\ regCalls = 1
    /\ last.op = "unregister"
    /\ Ok(last)
    /\ last.name = "changed"
    /\ last.key = <<ClassesName>>
    /\ failedWrites = {}
    /\ \E k \in DOMAIN keys : k.dead /\ k.path = <<ClassesName, "CLSID", CLSID>>

\* C20: a register right after a successful register with the same root,
\* module path, description and apartment, which the system does not fail,
\* returns Ok (every node is created or opened) and leaves the store as the
\* first call left it.
C20_RegisterRerunnable ==
    [][\A k \in DOMAIN keys, a \in RegisterArgs :
          (/\ Usable(k)
           /\ last.op = "register"
           /\ Ok(last)
           /\ last.key = k.path
           /\ last.args = a
           /\ Register(k, a[1], a[2], a[3], 0))
              => (Ok(last') /\ view' = view /\ store' = store)]_vars

\* a second register succeeded and found everything in place
C20_Witness ==
    /\ regCalls = 1
    /\ last.op = "register"
    /\ Ok(last)
    /\ last.name = "unchanged"
    /\ last.key = <<ClassesName>>

\* the string a buffer of code units holds: the units before its first null
\* (all of them when it holds none); the null pointer holds the empty string
CString(buf) ==
    LET nulls == {i \in 1..Len(buf) : buf[i] = NUL}
    IN  IF nulls = {} THEN buf
        ELSE SubSeq(buf, 1, (CHOOSE i \in nulls : \A j \in nulls : i <= j) - 1)

\* the value `name` of node `path` exists, is a string value, and reads as
\* the string `text`
ReadsAs(s, path, name, text) ==
    /\ <<path, name>> \in DOMAIN s.vals
    /\ s.vals[<<path, name>>].type = REG_SZ
    /\ CString(s.vals[<<path, name>>].data) = text

\* the value `name` of node `path` reads as the canonical form of GUID g
ReadsAsGuid(s, path, name, g) ==
    /\ <<path, name>> \in DOMAIN s.vals
    /\ s.vals[<<path, name>>].type = REG_SZ
    /\ Canonical(Append(CString(s.vals[<<path, name>>].data), NUL), g)

IdNode(root) == root \o <<"CLSID", CLSID>>

\* C12 as stated: after a successful register the default value of
\* InprocServer32 reads back as exactly the module path that was handed in
\* (the accepted slice without its terminating null), ThreadingModel as the
\* apartment string, and the default value of `{primary name}\CLSID` as the
\* canonical form of the class's GUID.
C12_RoundTrip ==
    (last.op = "register" /\ Ok(last)) =>
        LET inproc == Append(IdNode(last.key), "InprocServer32")
            path == last.args[1]
        IN  /\ ReadsAs(view, inproc, DefaultValue, SubSeq(path, 1, Len(path) - 1))
            /\ ReadsAs(view, inproc, "ThreadingModel", CString(last.args[3]))
            /\ ReadsAsGuid(view, last.key \o <<PROG_ID, "CLSID">>, DefaultValue,
                           T_CLSID)

\* C12, amended: after a successful register the default value of
\* InprocServer32 reads back as the code units of the module path up to its
\* first null (the whole path when its only null is the terminator),
\* ThreadingModel as the apartment string, and the default value of
\* `{primary name}\CLSID` as the canonical form of the class's GUID.
C12_RoundTripToFirstNull ==
    (last.op = "register" /\ Ok(last)) =>
        LET inproc == Append(IdNode(last.key), "InprocServer32")
        IN  /\ ReadsAs(view, inproc, DefaultValue, CString(last.args[1]))
            /\ ReadsAs(view, inproc, "ThreadingModel", CString(last.args[3]))
            /\ ReadsAsGuid(view, last.key \o <<PROG_ID, "CLSID">>, DefaultValue,
                           T_CLSID)

\* a module path with a null before its terminator was registered and
\* reads back cut at that null
C12_Witness ==
    /\ regCalls = 1
    /\ last.op = "register"
    /\ Ok(last)
    /\ last.args[1] = <<7, 0, 8, 0>>
    /\ ReadsAs(view, Append(IdNode(last.key), "InprocServer32"), DefaultValue,
               <<7>>)

\* the nodes and the values of the registration tree below `root`
LayoutNodes(root) ==
    {Append(root, "CLSID"), IdNode(root),
     Append(IdNode(root), "ProgId"),
     Append(IdNode(root), "VersionIndependentProgId"),
     Append(IdNode(root), "InprocServer32"),
     Append(root, PROG_ID), root \o <<PROG_ID, "CLSID">>,
     Append(root, VERSION_INDEPENDENT_PROG_ID),
     root \o <<VERSION_INDEPENDENT_PROG_ID, "CLSID">>}

LayoutValues(root) ==
    {<<IdNode(root), DefaultValue>>,
     <<Append(IdNode(root), "ProgId"), DefaultValue>>,
     <<Append(IdNode(root), "VersionIndependentProgId"), DefaultValue>>,
     <<Append(IdNode(root), "InprocServer32"), DefaultValue>>,
     <<Append(IdNode(root), "InprocServer32"), "ThreadingModel">>,
     <<root \o <<PROG_ID, "CLSID">>, DefaultValue>>,
     <<root \o <<VERSION_INDEPENDENT_PROG_ID, "CLSID">>, DefaultValue>>}

\* store s holds the registration tree below `root` for the arguments a =
\* <<module path, description, apartment>>, strings being the characters the
\* pointers designate
LayoutPresent(s, root, a) ==
    /\ LayoutNodes(root) \subseteq DOMAIN s.keys
    /\ ReadsAs(s, IdNode(root), DefaultValue, CString(a[2]))
    /\ ReadsAs(s, Append(IdNode(root), "ProgId"), DefaultValue, WideOf(PROG_ID))
    /\ ReadsAs(s, Append(IdNode(root), "VersionIndependentProgId"),
               DefaultValue, WideOf(VERSION_INDEPENDENT_PROG_ID))
    /\ ReadsAs(s, Append(IdNode(root), "InprocServer32"), DefaultValue,
               CString(a[1]))
    /\ ReadsAs(s, Append(IdNode(root), "InprocServer32"), "ThreadingModel",
               CString(a[3]))
    /\ ReadsAsGuid(s, root \o <<PROG_ID, "CLSID">>, DefaultValue, T_CLSID)
    /\ ReadsAsGuid(s, root \o <<VERSION_INDEPENDENT_PROG_ID, "CLSID">>,
                   DefaultValue, T_CLSID)

\* C13: after a successful register the registration tree of the layout is
\* in place below the root; below a root under which nothing existed the
\* tree is all there is; a successful register adds the nodes and values of
\* the layout and touches nothing else, and it returns one new Key, that of
\* the identifier node.
C13_RegistrationLayout ==
    /\ []((last.op = "register" /\ Ok(last))
            => LayoutPresent(view, last.key, last.args))
    /\ []((regCalls = 0 /\ last.op = "register" /\ Ok(last))
            => /\ Under(view, last.key) =
                    {<<"key", p>> : p \in LayoutNodes(last.key)}
                        \cup {<<"val", e[1], e[2], view.vals[e]>> :
                                e \in LayoutValues(last.key)}
               /\ NumKeys = 2 => NewKey(IdNode(last.key)) \in DOMAIN keys)
    /\ [][\A k \in DOMAIN keys, a \in RegisterArgs :
            (Register(k, a[1], a[2], a[3], 0) /\ Ok(last')) =>
                /\ DOMAIN view'.keys = DOMAIN view.keys \cup LayoutNodes(k.path)
                /\ DOMAIN view'.vals = DOMAIN view.vals \cup LayoutValues(k.path)
                /\ \A p \in DOMAIN view.keys : view'.keys[p] = view.keys[p]
                /\ \A e \in DOMAIN view.vals \ LayoutValues(k.path) :
                        view'.vals[e] = view.vals[e]
                /\ keys' = keys (+) OneKey(IdNode(k.path))
                /\ handles' = handles + 1
                /\ store' = store]_vars

\* a class was registered below a root where the tree was only partly
\* there, with a null description, and the Key of the identifier node is
\* held
C13_Witness ==
    /\ regCalls = 1
    /\ last.op = "register"
    /\ Ok(last)
    /\ last.name = "changed"
    /\ last.args[2] = NullPtr
    /\ failedWrites = {}
    /\ NewKey(IdNode(last.key)) \in DOMAIN keys
    /\ LayoutPresent(view, last.key, last.args)

DeleteOps == {"delete_subkey", "delete_tree", "delete_value"}

\* node p has neither subkeys nor values in store s
Bare(s, p) ==
    /\ \A q \in DOMAIN s.keys : IsPrefix(p, q) => q = p
    /\ \A e \in DOMAIN s.vals : e[1] # p

\* C15: delete_subkey, delete_tree and delete_value return Ok exactly when
\* the system call reports success or not-found, and hand every other code
\* on unchanged.  Through a usable Key they return Ok whether the target (the
\* named subkey with its subtree, the subkeys and values of the node, the
\* named value) exists or not; the target is absent afterwards, and a call
\* whose target is absent already changes nothing.
C15_DeleteIdempotent ==
    /\ [](last.op \in DeleteOps =>
            /\ last.err = (IF last.os \in {ERROR_SUCCESS, ERROR_FILE_NOT_FOUND}
                           THEN ERROR_SUCCESS ELSE last.os)
            /\ (last.op = "delete_subkey" /\ Ok(last)) =>
                    \A q \in DOMAIN view.keys :
                        ~IsPrefix(Append(last.key, last.name), q)
            /\ (last.op = "delete_tree" /\ Ok(last)) => Bare(view, last.key)
            /\ (last.op = "delete_value" /\ Ok(last)) =>
                    <<last.key, last.name>> \notin DOMAIN view.vals)
    /\ [][\A k \in DOMAIN keys :
            Usable(k) =>
                /\ \A n \in SubkeyNames :
                        KeyDeleteSubkey(k, n, FALSE) =>
                            /\ Ok(last')
                            /\ last'.os =
                                    (IF Append(k.path, n) \in DOMAIN view.keys
                                     THEN ERROR_SUCCESS ELSE ERROR_FILE_NOT_FOUND)
                            /\ Append(k.path, n) \notin DOMAIN view.keys
                                    => view' = view
                /\ KeyDeleteTree(k, FALSE) =>
                        /\ Ok(last')
                        /\ Bare(view, k.path) => view' = view
                /\ \A n \in ValueNames :
                        KeyDeleteValue(k, n, FALSE) =>
                            /\ Ok(last')
                            /\ last'.os =
                                    (IF <<k.path, n>> \in DOMAIN view.vals
                                     THEN ERROR_SUCCESS ELSE ERROR_FILE_NOT_FOUND)
                            /\ <<k.path, n>> \notin DOMAIN view.vals
                                    => view' = view]_vars

\* the `CLSID` subtree of a registered class was deleted, which made the Key
\* of the identifier node refer to a deleted node, and the same delete_subkey
\* call was repeated: the system reported not-found and the call returned Ok
C15_Witness ==
    /\ edits = 2
    /\ last.op = "delete_subkey"
    /\ last.key = <<ClassesName>>
    /\ last.name = "CLSID"
    /\ last.os = ERROR_FILE_NOT_FOUND
    /\ Ok(last)
    /\ \E k \in DOMAIN keys : k.dead /\ k.path = IdNode(<<ClassesName>>)

====
